---- MODULE Spec2Model ----
(***************************************************************************)
(* Model of pyledriver's alarm controller: the state graph and its        *)
(* lock-guarded transition engine (stateMachine.py), the self-cancelling  *)
(* countdown timer (_CountdownTimer) and the keypad listener              *)
(* (listeners.py).                                                         *)
(*                                                                         *)
(* Three specifications share the variables:                               *)
(*   Spec        the StateMachine from construction on: __enter__, the     *)
(*               listener threads calling selectState, the countdown       *)
(*               timers started and stopped by the states' callbacks;      *)
(*   SpecTimer   one _CountdownTimer(N, action, sound) with stop() called  *)
(*               at any moment;                                            *)
(*   SpecKeypad  the KeypadListener's read loop, its buffer and its        *)
(*               inactivity timers, delivering signals to the machine.     *)
(***************************************************************************)
EXTENDS Integers, Sequences, FiniteSets, TLC

VARIABLES
    currentState,   \* StateMachine.currentState (the state's name)
    stateFile,      \* stateFile['state']
    lock,           \* StateMachine._lock: its holder, or NoThread
    timerRef,       \* StateMachine._timer: Unset, None or a timer id
    timers,         \* every _CountdownTimer created so far, by id
    pc,             \* per caller of selectState: where it is in the call
    sig,            \* per caller: the signal of its call
    from,           \* per caller: currentState when it took the lock
    nxt,            \* per caller: the local nextState
    trace,          \* per caller: what its current call invoked, in order
    calls,          \* selectState calls made by the listeners so far
    expect,         \* the signals so far folded over next, in lock order
    mainPc,         \* the main thread's place in __init__/__enter__
    mainSt,         \* the state object __enter__ read at line 338
    buf,            \* KeypadListener._buf, a sequence of digits
    passwd,         \* the configured keyPasswd (an int)
    resetTimer,     \* KeypadListener._resetTimer: a Timer id, 0 while unassigned
    resetTimers,    \* every threading.Timer created so far, by id
    now,            \* the clock
    keys,           \* key presses handled so far
    lastOutcome,    \* the last key handled, the sounds it played, and when
                    \* the inactivity timer was last started
    obs,            \* SpecTimer: what the caller of stop() and the timer saw
    fs,             \* the filesystem node at the pipe's path, and its history
    life,           \* StateMachine._managed, the start() and stop() calls made,
                    \* and the locals of the constructors
    inp             \* what the pipe's callback and the sensor callback last saw

vars == <<currentState, stateFile, lock, timerRef, timers, pc, sig, from, nxt,
          trace, calls, expect, mainPc, mainSt, buf, passwd, resetTimer,
          resetTimers, now, keys, lastOutcome, obs, fs, life, inp>>

smVars == <<currentState, stateFile, lock, timerRef, timers, pc, sig, from,
            nxt, trace, calls, expect, mainPc, mainSt>>

kpVars == <<buf, passwd, resetTimer, resetTimers, now, keys, lastOutcome>>

envVars == <<fs, life, inp>>

\* what the state machine's own steps leave alone
auxVars == <<kpVars, obs, envVars>>

----------------------------------------------------------------------------
(* Bounds *)

\* selectState calls the listener threads make, all told
MaxCalls == 2

\* seconds a state's countdown runs (the code passes 30)
CountdownSeconds == 1

\* lines the pipe listener reads
MaxLines == 2

\* events a motion sensor reports
MaxEvents == 1

\* largest N of the stand-alone CountdownTimer(N, action, sound)
MaxCountdown == 5

\* key presses the keypad's read loop handles
MaxKeys == 3

\* clock ticks the inactivity timeout lasts (the code passes 30 seconds)
ResetSeconds == 2

\* how far the clock runs
MaxTime == 2

----------------------------------------------------------------------------
(* Signals and states *)

SIGNALS == {"ARM", "INSTANT_ARM", "LOCK", "INSTANT_LOCK", "DISARM", "TIMOUT", "TRIP"}

stateObjs == <<"disarmed", "armedCountdown", "armed", "lockedCountdown",
               "locked", "trippedCountdown", "tripped">>

States == {stateObjs[i] : i \in 1..Len(stateObjs)}

\* threads and references are pairs <<kind, number>>
NoThread == <<"nobody", 0>>
Unset == <<"unset", 0>>
None == <<"none", 0>>
Main == <<"main", 0>>
Keypad == <<"keypad", 0>>
Pipe == <<"pipe", 0>>
Sensor == <<"sensor", 0>>

\* the thread of timer k, and a reference to timer k
Tm(k) == <<"timer", k>>

\* the threads that deliver signals: the keypad's read loop and the secret pipe
Listeners == {Keypad, Pipe}

\* the signals a listener can be made to deliver
ListenerSignals(c) ==
    IF c = Keypad THEN {"LOCK", "INSTANT_LOCK", "ARM", "DISARM"} ELSE SIGNALS

\* one timer per entry into a countdown state: by a listener's call or by __enter__
\* or by a signal of the keypad
MaxTimers == MaxCalls + MaxKeys + 1

TimerIds == 1..MaxTimers

\* _State._transTbl of each state after the addTransition calls
transTbl ==
    [disarmed |->
        {<<"ARM", "armedCountdown">>, <<"INSTANT_ARM", "armed">>,
         <<"LOCK", "lockedCountdown">>, <<"INSTANT_LOCK", "locked">>},
     armedCountdown |->
        {<<"DISARM", "disarmed">>, <<"TIMOUT", "armed">>,
         <<"INSTANT_ARM", "armed">>, <<"LOCK", "lockedCountdown">>,
         <<"INSTANT_LOCK", "locked">>},
     armed |->
        {<<"DISARM", "disarmed">>, <<"TRIP", "trippedCountdown">>,
         <<"LOCK", "lockedCountdown">>, <<"INSTANT_LOCK", "locked">>},
     lockedCountdown |->
        {<<"DISARM", "disarmed">>, <<"TIMOUT", "locked">>,
         <<"INSTANT_LOCK", "locked">>, <<"ARM", "armedCountdown">>,
         <<"INSTANT_ARM", "armed">>},
     locked |->
        {<<"DISARM", "disarmed">>, <<"TRIP", "trippedCountdown">>,
         <<"ARM", "armedCountdown">>, <<"INSTANT_ARM", "armed">>},
     trippedCountdown |->
        {<<"DISARM", "disarmed">>, <<"TIMOUT", "tripped">>,
         <<"ARM", "armed">>, <<"INSTANT_ARM", "armed">>,
         <<"LOCK", "locked">>, <<"INSTANT_LOCK", "locked">>},
     tripped |->
        {<<"DISARM", "disarmed">>, <<"ARM", "armed">>,
         <<"INSTANT_ARM", "armed">>, <<"LOCK", "locked">>,
         <<"INSTANT_LOCK", "locked">>}]

nextMutArmLoop(s, signal) ==
    IF signal = "ARM" /\ s = "armedCountdown" THEN "armed"
    ELSE IF \E e \in transTbl[s] : e[1] = signal
         THEN (CHOOSE e \in transTbl[s] : e[1] = signal)[2]
         ELSE s

\* _State.next: the mapped target, or the state itself
next(s, signal) ==
    IF \E e \in transTbl[s] : e[1] = signal
    THEN (CHOOSE e \in transTbl[s] : e[1] = signal)[2]
    ELSE s

\* the entryCallbacks of each state, in list order
entryCallbacks ==
    [disarmed |-> <<"LED.setBlink(False)">>,
     armedCountdown |-> <<"squareBlink(1)", "startTimer">>,
     armed |-> <<"triangleBlink(2)">>,
     lockedCountdown |-> <<"squareBlink(1)", "startTimer">>,
     locked |-> <<"squareBlink(2)">>,
     trippedCountdown |-> <<"squareBlink(1)", "startTimer">>,
     tripped |-> <<"triangleBlink(1)", "intruderAlert">>]

\* the exitCallbacks of each state
exitCallbacks ==
    [disarmed |-> <<>>,
     armedCountdown |-> <<"stopTimer">>,
     armed |-> <<>>,
     lockedCountdown |-> <<"stopTimer">>,
     locked |-> <<>>,
     trippedCountdown |-> <<"stopTimer">>,
     tripped |-> <<>>]

Has(callbacks, name) == \E i \in 1..Len(callbacks) : callbacks[i] = name

Events(kind, callbacks) == [i \in 1..Len(callbacks) |-> <<kind, callbacks[i]>>]

----------------------------------------------------------------------------
(* _CountdownTimer *)

\* a timer: its thread's place, countdownSeconds, the loop's i, the Event,
\* whether a sound was given, and how often sound.play() and action() ran
NoTimer ==
    [pc |-> "unused", n |-> 0, i |-> 0, stopper |-> FALSE, sound |-> FALSE,
     ticks |-> 0, acts |-> 0]

NewTimerMutNotStarted(n, sound) ==
    [NoTimer EXCEPT !.pc = "created", !.n = n, !.i = n, !.sound = sound]

\* _CountdownTimer.__init__: the thread starts at the top of range(n, 0, -1)
NewTimer(n, sound) ==
    [NoTimer EXCEPT !.pc = IF n >= 1 THEN "check" ELSE "action",
                    !.n = n, !.i = n, !.sound = sound]

\* Thread.is_alive() of a started timer
is_alive(tm) == tm.pc \notin {"unused", "done"}

\* _CountdownTimer.stop: self._stopper.set()
stop(tm) == [tm EXCEPT !.stopper = TRUE]

stopperIsSetMutNever(tm) == FALSE

\* self._stopper.isSet()
stopperIsSet(tm) == tm.stopper

tickDueMutFirst(tm) == tm.sound /\ tm.i <= tm.n

\* "if sound and i < countdownSeconds"
tickDue(tm) == tm.sound /\ tm.i < tm.n

\* one step of the countdown closure, for a timer that is in its loop
countdown(tm) ==
    CASE tm.pc = "check" ->
            IF stopperIsSet(tm)
            THEN [tm EXCEPT !.pc = "done"]
            ELSE [tm EXCEPT !.pc = "tick"]
      [] tm.pc = "tick" ->
            [tm EXCEPT !.pc = "sleep",
                       !.ticks = IF tickDue(tm) THEN tm.ticks + 1 ELSE tm.ticks]
      [] tm.pc = "sleep" ->
            [tm EXCEPT !.pc = IF tm.i - 1 > 0 THEN "check" ELSE "action",
                       !.i = tm.i - 1]
      [] OTHER -> tm

----------------------------------------------------------------------------
(* StateMachine: the timer callbacks, selectState, __enter__ *)

Created(tms) == {k \in DOMAIN tms : tms[k].pc # "unused"}

\* startTimer(t, sound): self._timer = _CountdownTimer(t, self.TIMOUT, sound)
startTimer(tms) ==
    LET k == Cardinality(Created(tms)) + 1
    IN  [ref |-> Tm(k), tms |-> [tms EXCEPT ![k] = NewTimer(CountdownSeconds, TRUE)]]

\* stopTimer(): self._timer.is_alive() raises AttributeError when _timer was
\* never assigned or is None
stopTimer(ref, tms) ==
    IF ref \in {Unset, None}
    THEN [raised |-> TRUE, ref |-> ref, tms |-> tms]
    ELSE IF is_alive(tms[ref[2]])
         THEN [raised |-> FALSE, ref |-> None,
               tms |-> [tms EXCEPT ![ref[2]] = stop(tms[ref[2]])]]
         ELSE [raised |-> FALSE, ref |-> ref, tms |-> tms]

\* _State.exit of state s: sound.stop(), then the exit callbacks
exit(s, ref, tms) ==
    LET ev == <<<<"exit", s>>, <<"sound.stop", s>>>> \o Events("callback", exitCallbacks[s])
    IN  IF Has(exitCallbacks[s], "stopTimer")
        THEN LET r == stopTimer(ref, tms)
             IN  [raised |-> r.raised, ref |-> r.ref, tms |-> r.tms, events |-> ev]
        ELSE [raised |-> FALSE, ref |-> ref, tms |-> tms, events |-> ev]

\* _State.entry of state s: sound.play(), then the entry callbacks
entry(s, ref, tms) ==
    LET ev == <<<<"entry", s>>, <<"sound.play", s>>>> \o Events("callback", entryCallbacks[s])
    IN  IF Has(entryCallbacks[s], "startTimer")
        THEN LET r == startTimer(tms)
             IN  [ref |-> r.ref, tms |-> r.tms, events |-> ev]
        ELSE [ref |-> ref, tms |-> tms, events |-> ev]

IsTimer(c) == c[1] = "timer"

LockFreeMutNoLock == TRUE

\* Lock.acquire can proceed
LockFree == lock = NoThread

\* the thread of a timer ends when its action returns or raises
ThreadEnds(c, tms) ==
    IF IsTimer(c) THEN [tms EXCEPT ![c[2]].pc = "done"] ELSE tms

\* a listener thread calls selectState(s)
Call(c, s) ==
    /\ c \in Listeners
    /\ mainPc # "constructed"
    /\ pc[c] = "idle"
    /\ calls < MaxCalls
    /\ s \in ListenerSignals(c)
    /\ pc' = [pc EXCEPT ![c] = "wait"]
    /\ sig' = [sig EXCEPT ![c] = s]
    /\ calls' = calls + 1
    /\ UNCHANGED <<currentState, stateFile, lock, timerRef, timers, from, nxt,
                   trace, expect, mainPc, mainSt>>
    /\ UNCHANGED auxVars

\* "with self._lock:" entered, nextState = self.currentState.next(signal)
Acquire(c) ==
    /\ pc[c] = "wait"
    /\ LockFree
    /\ lock' = c
    /\ from' = [from EXCEPT ![c] = currentState]
    /\ nxt' = [nxt EXCEPT ![c] = next(currentState, sig[c])]
    /\ expect' = next(expect, sig[c])
    /\ trace' = [trace EXCEPT ![c] = <<>>]
    /\ pc' = [pc EXCEPT ![c] = "locked"]
    /\ UNCHANGED <<currentState, stateFile, timerRef, timers, sig, calls,
                   mainPc, mainSt>>
    /\ UNCHANGED auxVars

DiffersMutAlways(a, b) == TRUE

\* "nextState != self.currentState": _State.__eq__ compares the names
Differs(a, b) == a # b

unwindMutKeepsLock(c) == lock

\* an exception leaves "with self._lock:", which releases the lock
unwind(c) == IF lock = c THEN NoThread ELSE lock

\* self.currentState.exit(); an exception leaves the with block, which
\* releases the lock, and ends the call
Exit(c) ==
    /\ pc[c] = "locked"
    /\ Differs(nxt[c], currentState)
    /\ LET r == exit(currentState, timerRef, timers)
       IN  /\ trace' = [trace EXCEPT ![c] = @ \o r.events]
           /\ timerRef' = r.ref
           /\ IF r.raised
              THEN /\ pc' = [pc EXCEPT ![c] = "raised"]
                   /\ lock' = unwind(c)
                   /\ timers' = ThreadEnds(c, r.tms)
              ELSE /\ pc' = [pc EXCEPT ![c] = "exited"]
                   /\ lock' = lock
                   /\ timers' = r.tms
    /\ UNCHANGED <<currentState, stateFile, sig, from, nxt, calls, expect,
                   mainPc, mainSt>>
    /\ UNCHANGED auxVars

\* self.currentState = nextState
Assign(c) ==
    /\ pc[c] = "exited"
    /\ currentState' = nxt[c]
    /\ trace' = [trace EXCEPT ![c] = Append(@, <<"set", nxt[c]>>)]
    /\ pc' = [pc EXCEPT ![c] = "assigned"]
    /\ UNCHANGED <<stateFile, lock, timerRef, timers, sig, from, nxt, calls,
                   expect, mainPc, mainSt>>
    /\ UNCHANGED auxVars

\* self.currentState.entry()
Entry(c) ==
    /\ pc[c] = "assigned"
    /\ LET r == entry(currentState, timerRef, timers)
       IN  /\ trace' = [trace EXCEPT ![c] = @ \o r.events]
           /\ timerRef' = r.ref
           /\ timers' = r.tms
    /\ pc' = [pc EXCEPT ![c] = "entered"]
    /\ UNCHANGED <<currentState, stateFile, lock, sig, from, nxt, calls,
                   expect, mainPc, mainSt>>
    /\ UNCHANGED auxVars

PersistValueMutStale(c) == from[c]

\* the value written by stateFile['state'] = self.currentState.name
PersistValue(c) == currentState

\* stateFile['state'] = self.currentState.name, after a transition or a self-loop
Persist(c) ==
    /\ \/ pc[c] = "entered"
       \/ pc[c] = "locked" /\ ~Differs(nxt[c], currentState)
    /\ stateFile' = PersistValue(c)
    /\ pc' = [pc EXCEPT ![c] = "persisted"]
    /\ UNCHANGED <<currentState, lock, timerRef, timers, sig, from, nxt,
                   trace, calls, expect, mainPc, mainSt>>
    /\ UNCHANGED auxVars

\* the with block ends: the lock is released and selectState returns
Release(c) ==
    /\ pc[c] = "persisted"
    /\ lock' = IF lock = c THEN NoThread ELSE lock
    /\ pc' = [pc EXCEPT ![c] = "idle"]
    /\ timers' = ThreadEnds(c, timers)
    /\ sig' = [sig EXCEPT ![c] = "TIMOUT"]
    /\ from' = [from EXCEPT ![c] = "disarmed"]
    /\ nxt' = [nxt EXCEPT ![c] = "disarmed"]
    /\ trace' = [trace EXCEPT ![c] = <<>>]
    /\ UNCHANGED <<currentState, stateFile, timerRef, calls, expect, mainPc,
                   mainSt>>
    /\ UNCHANGED auxVars

\* a timer thread of the machine runs one step of its countdown loop
TimerStep(k) ==
    /\ timers[k].pc \in {"check", "tick", "sleep"}
    /\ timers' = [timers EXCEPT ![k] = countdown(timers[k])]
    /\ UNCHANGED <<currentState, stateFile, lock, timerRef, pc, sig, from,
                   nxt, trace, calls, expect, mainPc, mainSt>>
    /\ UNCHANGED auxVars

\* the loop is over: action(), which is self.TIMOUT = selectState(TIMOUT)
TimerAction(k) ==
    /\ timers[k].pc = "action"
    /\ timers' = [timers EXCEPT ![k].pc = "inaction", ![k].acts = @ + 1]
    /\ pc' = [pc EXCEPT ![Tm(k)] = "wait"]
    /\ sig' = [sig EXCEPT ![Tm(k)] = "TIMOUT"]
    /\ UNCHANGED <<currentState, stateFile, lock, timerRef, from, nxt, trace,
                   calls, expect, mainPc, mainSt>>
    /\ UNCHANGED auxVars

\* the objects __init__ hands to _addManaged, in the order of the calls
Collaborators ==
    <<"SoundLib", "FileDump", "Camera", "PipeListener", "KeypadListener",
      "Blinkenlights">>

\* pipeMode = 0o0777
pipeMode == 511

\* the pipe's node after PipeListener.__init__ found nothing at its path
PipeMade == [kind |-> "fifo", mode |-> pipeMode, made |-> 1, was |-> "absent", wasMode |-> 0]

\* the StateMachine after __init__: every collaborator registered, none started
Registered ==
    [idx |-> Len(Collaborators) + 1, managed |-> Collaborators, started |-> <<>>,
     stopped |-> <<>>, st_mode |-> 0, umask |-> 18, passwdIsInt |-> TRUE]

\* no line read from the pipe yet, no sensor event yet, no door event yet
NoInput ==
    [cst |-> "disarmed", msg |-> <<>>, hit |-> FALSE, lines |-> 0, events |-> 0,
     closed |-> FALSE]

\* the environment while the machine runs: the pipe exists, construction is over
EnvIdle ==
    /\ fs = PipeMade
    /\ life = Registered
    /\ inp = NoInput

\* _addManaged(obj): self._managed.append(obj)
addManaged(l, obj) == [l EXCEPT !.managed = Append(@, obj)]

\* "for m in self._managed: m.<start or stop>()": the calls made, in order
RECURSIVE forManaged(_, _)
forManaged(ms, called) ==
    IF ms = <<>> THEN called ELSE forManaged(Tail(ms), Append(called, Head(ms)))

startManagedMutSkipFirst(l) ==
    [l EXCEPT !.started = forManaged(Tail(l.managed), l.started)]

\* _startManaged
startManaged(l) == [l EXCEPT !.started = forManaged(l.managed, l.started)]

\* _stopManaged
stopManaged(l) == [l EXCEPT !.stopped = forManaged(l.managed, l.stopped)]

\* __enter__: self._startManaged() starts the collaborators, the listener
\* threads among them
StartManaged ==
    /\ mainPc = "constructed"
    /\ mainPc' = "managed"
    /\ life' = startManaged(life)
    /\ UNCHANGED <<currentState, stateFile, lock, timerRef, timers, pc, sig,
                   from, nxt, trace, calls, expect, mainSt>>
    /\ UNCHANGED <<kpVars, obs, fs, inp>>

\* __enter__, line 338: self.currentState is read, without the lock
MainRead ==
    /\ mainPc = "managed"
    /\ mainSt' = currentState
    /\ mainPc' = "entry"
    /\ UNCHANGED <<currentState, stateFile, lock, timerRef, timers, pc, sig,
                   from, nxt, trace, calls, expect>>
    /\ UNCHANGED auxVars

\* __enter__, line 338: .entry() of the state read, without the lock
MainEntry ==
    /\ mainPc = "entry"
    /\ LET r == entry(mainSt, timerRef, timers)
       IN  /\ trace' = [trace EXCEPT ![Main] = r.events]
           /\ timerRef' = r.ref
           /\ timers' = r.tms
    /\ mainPc' = "running"
    /\ UNCHANGED <<currentState, stateFile, lock, pc, sig, from, nxt, calls,
                   expect, mainSt>>
    /\ UNCHANGED auxVars

Callers == Listeners \cup {Sensor} \cup {Tm(k) : k \in TimerIds}

\* nothing observed yet: stop() not called, the flag not found set
NoObs == [stopAt |-> -1, ticksAtStop |-> 0, seen |-> FALSE, ticksAtSeen |-> 0]

\* no key handled yet, no inactivity timer started yet
NoOutcome == [key |-> "none", sounds |-> <<>>, startedAt |-> -1]

\* the keypad listener's variables, unused by the state machine's specification
KeypadIdle ==
    /\ buf = <<>>
    /\ passwd = 0
    /\ resetTimer = 0
    /\ resetTimers = <<>>
    /\ now = 0
    /\ keys = 0
    /\ lastOutcome = NoOutcome

\* StateMachine.__init__: the state named by stateFile['state'], no _timer yet
Init ==
    /\ currentState \in States
    /\ stateFile = currentState
    /\ lock = NoThread
    /\ timerRef = Unset
    /\ timers = [k \in TimerIds |-> NoTimer]
    /\ pc = [c \in Callers |-> "idle"]
    /\ sig = [c \in Callers |-> "TIMOUT"]
    /\ from = [c \in Callers |-> "disarmed"]
    /\ nxt = [c \in Callers |-> "disarmed"]
    /\ trace = [c \in Callers \cup {Main} |-> <<>>]
    /\ calls = 0
    /\ expect = currentState
    /\ mainPc = "constructed"
    /\ mainSt = currentState
    /\ KeypadIdle
    /\ obs = NoObs
    /\ EnvIdle

Next ==
    \/ StartManaged
    \/ MainRead
    \/ MainEntry
    \/ \E c \in Listeners : \E s \in SIGNALS : Call(c, s)
    \/ \E c \in Callers : Acquire(c)
    \/ \E c \in Callers : Exit(c)
    \/ \E c \in Callers : Assign(c)
    \/ \E c \in Callers : Entry(c)
    \/ \E c \in Callers : Persist(c)
    \/ \E c \in Callers : Release(c)
    \/ \E k \in TimerIds : TimerStep(k)
    \/ \E k \in TimerIds : TimerAction(k)

Spec == Init /\ [][Next]_vars

\* a thread inside selectState runs on
HolderStep ==
    \E c \in Callers : Exit(c) \/ Assign(c) \/ Entry(c) \/ Persist(c) \/ Release(c)

\* every thread that can run does: the main thread through __enter__, the
\* holder of the lock through selectState, a thread waiting for the free
\* lock, each timer thread through its countdown. Whether a listener
\* delivers a signal at all is left open.
Fairness ==
    /\ WF_vars(StartManaged \/ MainRead \/ MainEntry)
    /\ WF_vars(HolderStep)
    /\ \A c \in Callers : WF_vars(Acquire(c))
    /\ \A k \in TimerIds : WF_vars(TimerStep(k) \/ TimerAction(k))

SpecLive == Init /\ [][Next]_vars /\ Fairness

----------------------------------------------------------------------------
(* Claims about the transition engine, checked under Spec *)

InCall(c) == pc[c] \in {"locked", "exited", "assigned", "entered", "persisted"}

NoCallInProgress == \A c \in Callers : ~InCall(c)

\* C1: whenever no selectState call is in progress, currentState is the
\* result of applying every signal delivered so far, one after another in
\* the order the calls took the lock, to the state held before the calls:
\* no signal's transition is lost and none is applied twice.
C1_SerialOrder == NoCallInProgress => currentState = expect

\* the transition table of the specification's section 4.1, in the column
\* order Arm, InstantArm, Lock, InstantLock, Disarm, Timeout, Trip
SpecColumns == <<"ARM", "INSTANT_ARM", "LOCK", "INSTANT_LOCK", "DISARM", "TIMOUT", "TRIP">>

SpecTable ==
    [disarmed |-> <<"armedCountdown", "armed", "lockedCountdown", "locked", "-", "-", "-">>,
     armedCountdown |-> <<"-", "armed", "lockedCountdown", "locked", "disarmed", "armed", "-">>,
     armed |-> <<"-", "-", "lockedCountdown", "locked", "disarmed", "-", "trippedCountdown">>,
     lockedCountdown |-> <<"armedCountdown", "armed", "-", "locked", "disarmed", "locked", "-">>,
     locked |-> <<"armedCountdown", "armed", "-", "-", "disarmed", "-", "trippedCountdown">>,
     trippedCountdown |-> <<"armed", "armed", "locked", "locked", "disarmed", "tripped", "-">>,
     tripped |-> <<"armed", "armed", "locked", "locked", "disarmed", "-", "-">>]

SpecTarget(s, g) ==
    LET j == CHOOSE j \in 1..Len(SpecColumns) : SpecColumns[j] = g
    IN  IF SpecTable[s][j] = "-" THEN s ELSE SpecTable[s][j]

\* C2: for each state and each signal, the nextState a call computes is the
\* target the table of section 4.1 gives, and the state itself for every
\* cell the table leaves unlisted.
C2_TransitionTable ==
    \A c \in Callers :
        pc[c] = "locked" => nxt[c] = SpecTarget(from[c], sig[c])

\* every cell of the table is computed by some call: here an unlisted cell
\* (tripped, Trip) and a listed one (trippedCountdown, Arm)
C2_Witness ==
    /\ pc[Pipe] = "locked"
    /\ \/ from[Pipe] = "tripped" /\ sig[Pipe] = "TRIP" /\ nxt[Pipe] = "tripped"
       \/ from[Pipe] = "trippedCountdown" /\ sig[Pipe] = "ARM" /\ nxt[Pipe] = "armed"

IsHop(e) == e[1] \in {"exit", "set", "entry"}

Hops(c) == SelectSeq(trace[c], IsHop)

CallOver(c) == pc[c] \in {"persisted", "raised"}

\* C3: every selectState call whose signal maps the current state S to a
\* different state T has, when it ends, invoked S.exit once, then set
\* currentState to T, then invoked T.entry once, and no other entry or exit.
C3_ExitSetEntry ==
    \A c \in Callers :
        (CallOver(c) /\ next(from[c], sig[c]) # from[c]) =>
            /\ Hops(c) = << <<"exit", from[c]>>,
                            <<"set", next(from[c], sig[c])>>,
                            <<"entry", next(from[c], sig[c])>> >>
            /\ currentState = next(from[c], sig[c])

Unmapped(s, g) == ~ \E e \in transTbl[s] : e[1] = g

\* C4: a call whose signal has no entry in the transition map of the
\* current state S leaves currentState equal to S and invokes neither an
\* exit nor an entry, so none of the timer, sound and LED callbacks runs.
C4_SelfLoopFrame ==
    \A c \in Callers :
        (pc[c] \notin {"idle", "wait"} /\ Unmapped(from[c], sig[c])) =>
            /\ pc[c] \in {"locked", "persisted"}
            /\ trace[c] = <<>>
            /\ currentState = from[c]

\* a self-loop call has written the persisted state and is about to return
C4_Witness ==
    /\ pc[Keypad] = "persisted"
    /\ from[Keypad] = "armedCountdown"
    /\ sig[Keypad] = "ARM"
    /\ currentState = "armedCountdown"
    /\ timerRef # Unset

\* C5: whenever no thread holds the lock, stateFile['state'] equals
\* currentState.name, also after a self-loop; and a step that writes
\* currentState or the persisted value is taken by the holder of the lock.
C5_PersistedMatches ==
    /\ [](lock = NoThread => stateFile = currentState)
    /\ [][(currentState' # currentState \/ stateFile' # stateFile) =>
            (lock # NoThread /\ lock' = lock /\ InCall(lock))]_vars

\* after a call that moved the machine to lockedCountdown has returned, a
\* self-loop call (Trip) has written the persisted state again
C5_Witness ==
    /\ calls = MaxCalls
    /\ pc[Pipe] = "persisted"
    /\ sig[Pipe] = "TRIP"
    /\ from[Pipe] = "lockedCountdown"
    /\ pc[Keypad] = "idle"
    /\ timerRef # Unset
    /\ mainPc = "managed"
    /\ stateFile = "lockedCountdown"

\* C6: at most one thread is between taking the lock and releasing it, and
\* it is the holder of the lock: the exit, assignment, entry and persisting
\* of one call never interleave with those of another.
C6_MutualExclusion ==
    /\ Cardinality({c \in Callers : InCall(c)}) <= 1
    /\ \A c \in Callers : InCall(c) => lock = c

\* one call is between its exit and its entry while another waits for the lock
C6_Witness ==
    /\ pc[Keypad] = "assigned"
    /\ pc[Pipe] = "wait"
    /\ \E k \in TimerIds : pc[Tm(k)] = "wait"

\* the states whose entry starts a countdown, and where Timeout leads
Countdown == {"armedCountdown", "lockedCountdown", "trippedCountdown"}

TimeoutTarget ==
    [armedCountdown |-> "armed", lockedCountdown |-> "locked",
     trippedCountdown |-> "tripped"]

\* C16: under fair scheduling the machine does not stay in armedCountdown,
\* lockedCountdown or trippedCountdown: a Timeout arrives and the machine
\* leaves the state, and whenever a timer thread's call is what takes the
\* machine out of the state, it takes it to armed, locked or tripped
\* respectively (any other way out is a signal of another source).
C16_CountdownEnds ==
    /\ \A s \in Countdown : (currentState = s) ~> (currentState # s)
    /\ [][\A s \in Countdown :
            (currentState = s /\ currentState' # s /\ IsTimer(lock)) =>
                currentState' = TimeoutTarget[s]]_vars

\* a timer's selectState(TIMOUT) has moved the machine from armedCountdown
\* to armed and is about to return
C16_Witness ==
    \E k \in TimerIds :
        /\ pc[Tm(k)] = "persisted"
        /\ sig[Tm(k)] = "TIMOUT"
        /\ from[Tm(k)] = "armedCountdown"
        /\ currentState = "armed"
        /\ stateFile = "armed"
        /\ timers[k].acts = 1

\* C17: when an exit action raises during selectState the lock is released
\* in that step and the raising thread no longer holds it; and every call
\* that waits for the lock, before or after a raise, gets it and ends (by
\* returning or by raising itself): nobody waits forever.
C17_RaiseReleasesLock ==
    /\ [][\A c \in Callers :
            (pc[c] # "raised" /\ pc'[c] = "raised") =>
                (lock = c /\ lock' = NoThread)]_vars
    /\ [](\A c \in Callers : pc[c] = "raised" => lock # c)
    /\ \A c \in Callers : (pc[c] = "wait") ~> (pc[c] \in {"idle", "raised"})

\* the keypad's call raised in armedCountdown's exit; after it the pipe's
\* call took the lock and has been processed
C17_Witness ==
    /\ pc[Keypad] = "raised"
    /\ pc[Pipe] = "persisted"
    /\ lock = Pipe
    /\ stateFile = currentState

\* C18: once a countdown state's exit has called stop() on its timer, that
\* timer never causes a state change: when a timer thread's call of
\* selectState(TIMOUT) has the lock and is about to leave the current
\* state, no exit has set that timer's cancellation flag.
C18_LatestTimerOnly ==
    \A k \in TimerIds :
        (pc[Tm(k)] = "locked" /\ nxt[Tm(k)] # currentState) =>
            ~timers[k].stopper

\* the timers that are running and not cancelled
Running == {k \in TimerIds : is_alive(timers[k]) /\ ~timers[k].stopper}

\* C19: once __enter__ has completed, and while no selectState call is in
\* progress, at most one countdown timer is running and not cancelled, and
\* one is if and only if currentState is armedCountdown, lockedCountdown
\* or trippedCountdown.
C19_OneTimerIffCountdown ==
    (mainPc = "running" /\ NoCallInProgress) =>
        /\ Cardinality(Running) <= 1
        /\ Running # {} <=> currentState \in Countdown

----------------------------------------------------------------------------
(* SpecTimer: one _CountdownTimer(n, action, sound) on its own, with stop() *)
(* called by another thread at any moment                                    *)

\* whole seconds slept so far by a timer
Elapsed(tm) == tm.n - tm.i

\* the state machine's variables while only the timer runs
MachineIdle ==
    /\ currentState = "disarmed"
    /\ stateFile = "disarmed"
    /\ lock = NoThread
    /\ timerRef = Unset
    /\ pc = [c \in {Tm(1)} |-> "idle"]
    /\ sig = [c \in {Tm(1)} |-> "TIMOUT"]
    /\ from = [c \in {Tm(1)} |-> "disarmed"]
    /\ nxt = [c \in {Tm(1)} |-> "disarmed"]
    /\ trace = [c \in {Tm(1)} |-> <<>>]
    /\ calls = 0
    /\ expect = "disarmed"
    /\ mainPc = "constructed"
    /\ mainSt = "disarmed"

\* _CountdownTimer(n, action, sound) has been constructed and started
InitTimer ==
    /\ \E n \in 0..MaxCountdown : \E sound \in BOOLEAN :
           timers = <<NewTimer(n, sound)>>
    /\ obs = NoObs
    /\ MachineIdle
    /\ KeypadIdle
    /\ EnvIdle

\* the timer thread runs one step of countdown(): the check at the top of
\* an iteration, the tick, or the one-second sleep
CdStep ==
    /\ timers[1].pc \in {"check", "tick", "sleep"}
    /\ timers' = [timers EXCEPT ![1] = countdown(timers[1])]
    /\ obs' = IF timers[1].pc = "check" /\ timers[1].stopper /\ ~obs.seen
              THEN [obs EXCEPT !.seen = TRUE, !.ticksAtSeen = timers[1].ticks]
              ELSE obs
    /\ UNCHANGED <<currentState, stateFile, lock, timerRef, pc, sig, from,
                   nxt, trace, calls, expect, mainPc, mainSt>>
    /\ UNCHANGED kpVars
    /\ UNCHANGED envVars

\* the loop has ended: action() is invoked, returns, and the thread ends
CdAction ==
    /\ timers[1].pc = "action"
    /\ timers' = [timers EXCEPT ![1].pc = "done", ![1].acts = @ + 1]
    /\ UNCHANGED <<currentState, stateFile, lock, timerRef, pc, sig, from,
                   nxt, trace, calls, expect, mainPc, mainSt>>
    /\ UNCHANGED auxVars

\* another thread calls stop(), at any moment, any number of times
CdStop ==
    /\ timers' = [timers EXCEPT ![1] = stop(timers[1])]
    /\ obs' = IF obs.stopAt = -1
              THEN [obs EXCEPT !.stopAt = Elapsed(timers[1]),
                               !.ticksAtStop = timers[1].ticks]
              ELSE obs
    /\ UNCHANGED <<currentState, stateFile, lock, timerRef, pc, sig, from,
                   nxt, trace, calls, expect, mainPc, mainSt>>
    /\ UNCHANGED kpVars
    /\ UNCHANGED envVars

NextTimer == CdStep \/ CdAction \/ CdStop

SpecTimer == InitTimer /\ [][NextTimer]_vars

\* C7: once the timer has found the cancellation flag set at the top of an
\* iteration, its thread has ended, the terminal action has not been and is
\* never invoked, and no tick follows; for CountdownTimer(5, action, tick)
\* with stop() called after 2 seconds, action is never invoked and at most
\* 2 further ticks occur.
C7_Cancelled ==
    /\ obs.seen =>
          /\ timers[1].pc = "done"
          /\ timers[1].acts = 0
          /\ timers[1].ticks = obs.ticksAtSeen
    /\ (timers[1].n = 5 /\ obs.stopAt = 2) =>
          /\ timers[1].acts = 0
          /\ timers[1].ticks - obs.ticksAtStop <= 2

\* CountdownTimer(5, action, tick) stopped after 2 seconds, between the
\* check and the tick of the third iteration: one more tick, then the end
C7_Witness ==
    /\ timers[1].n = 5
    /\ timers[1].sound
    /\ obs.stopAt = 2
    /\ obs.seen
    /\ timers[1].pc = "done"
    /\ timers[1].ticks = obs.ticksAtStop + 1
    /\ timers[1].acts = 0

\* C8: a CountdownTimer(N, action, tick) with N >= 1 that is never
\* cancelled has ticked once before each one-second step but the first,
\* invokes action once after the last step, after N - 1 ticks, and ends.
C8_Uncancelled ==
    LET tm == timers[1]
    IN  (tm.n >= 1 /\ tm.sound /\ ~tm.stopper) =>
            /\ tm.pc \in {"check", "tick"} =>
                   /\ tm.ticks = (IF tm.i < tm.n THEN Elapsed(tm) - 1 ELSE 0)
                   /\ tm.acts = 0
            /\ tm.pc = "sleep" => tm.ticks = Elapsed(tm) /\ tm.acts = 0
            /\ tm.pc = "action" => tm.ticks = tm.n - 1 /\ tm.acts = 0 /\ tm.i = 0
            /\ tm.pc = "done" => tm.ticks = tm.n - 1 /\ tm.acts = 1
            /\ tm.pc \in {"check", "tick", "sleep", "action", "done"}

\* CountdownTimer(5, action, tick), never cancelled, has ended after 4
\* ticks and 1 action
C8_Witness ==
    /\ timers[1].n = 5
    /\ timers[1].sound
    /\ ~timers[1].stopper
    /\ timers[1].pc = "done"
    /\ timers[1].ticks = 4
    /\ timers[1].acts = 1

----------------------------------------------------------------------------
(* SpecKeypad: the KeypadListener's read loop, with the machine it drives *)

\* ctrlKeys, volKeys and numKeys of KeypadListener.__init__, by key code
ctrlKeys == (69 :> "NUML") @@ (98 :> "/") @@ (55 :> "*") @@ (14 :> "BS") @@ (96 :> "ENTER")

volKeys == (74 :> "-") @@ (78 :> "+") @@ (83 :> ".")

numKeys ==
    (71 :> "7") @@ (72 :> "8") @@ (73 :> "9") @@
    (75 :> "4") @@ (76 :> "5") @@ (77 :> "6") @@
    (79 :> "1") @@ (80 :> "2") @@ (81 :> "3") @@
    (82 :> "0")

\* the key codes pressed in the model: 1 and 0, the five control keys, a
\* volume key and a key of none of the tables
PressedCodes == {79, 82} \cup DOMAIN ctrlKeys \cup {83} \cup {30}

\* the input events read: key presses, and a release and a repeat of a key
KeyEvents ==
    [type : {1}, value : {1}, code : PressedCodes]
        \cup [type : {1}, value : {0, 2}, code : {79}]
        \cup [type : {4}, value : {1}, code : {79}]

\* the configured keyPasswd values tried
Passwds == {10}

DigitChars == <<"0", "1", "2", "3", "4", "5", "6", "7", "8", "9">>

\* str(passwd) of an int: its decimal digits, most significant first
RECURSIVE str(_)
str(n) ==
    IF n < 0 THEN <<"-">> \o str(0 - n)
    ELSE IF n < 10 THEN <<DigitChars[n + 1]>>
    ELSE str(n \div 10) \o <<DigitChars[(n % 10) + 1]>>

\* "event.type == 1 and event.value == 1"
IsPress(e) == e.type = 1 /\ e.value = 1

\* _startResetTimer: a new Timer(30, self._clearBuffer) is started and kept
\* in self._resetTimer
startResetTimer(rts) == Append(rts, [st |-> "pending", deadline |-> now + ResetSeconds])

\* Timer.cancel: a timer that has not fired yet never will
cancel(tm) == [tm EXCEPT !.st = IF @ = "pending" THEN "cancelled" ELSE @]

\* _stopResetTimer: self._resetTimer.cancel(); the AttributeError of a
\* listener that never started a timer is swallowed
stopResetTimer(ref, rts) ==
    IF ref = 0 THEN rts ELSE [rts EXCEPT ![ref] = cancel(rts[ref])]

\* the signal a control key asks for
KeySignal(val) ==
    CASE val = "ENTER" -> "DISARM"
      [] val = "NUML" -> "LOCK"
      [] val = "/" -> "INSTANT_LOCK"
      [] val = "*" -> "ARM"

\* the read loop can take an event: the listener thread was started by
\* _startManaged, is alive and is not inside selectState
Reading ==
    /\ mainPc # "constructed"
    /\ pc[Keypad] = "idle"
    /\ keys < MaxKeys

Heard(val, sounds, started) ==
    [key |-> val, sounds |-> sounds,
     startedAt |-> IF started THEN now ELSE lastOutcome.startedAt]

passwdMatchesMutPrefix(b) ==
    Len(b) <= Len(str(passwd)) /\ b = SubSeq(str(passwd), 1, Len(b))

\* "self._buf == str(passwd)"
passwdMatches(b) == b = str(passwd)

\* numeral input: the digit is appended, the timer started, numKeySound played
NumKey(e) ==
    /\ Reading
    /\ IsPress(e)
    /\ e.code \in DOMAIN numKeys
    /\ buf' = Append(buf, numKeys[e.code])
    /\ resetTimers' = startResetTimer(resetTimers)
    /\ resetTimer' = Len(resetTimers')
    /\ keys' = keys + 1
    /\ lastOutcome' = Heard(numKeys[e.code], <<"numKey">>, TRUE)
    /\ UNCHANGED <<passwd, now, obs>>
    /\ UNCHANGED envVars
    /\ UNCHANGED smVars

ChecksPasswdMutEnterAlways(val) == val \in {"NUML", "/", "*", "ENTER"}

\* the control keys that run checkPasswd: ENTER unless disarmed, NUML, / and *
ChecksPasswd(val) ==
    \/ val \in {"NUML", "/", "*"}
    \/ val = "ENTER" /\ currentState # "disarmed"

\* checkPasswd(action): nothing but ctrlKeySound on an empty buffer;
\* resetBuffer() and action() on the password; resetBuffer() and
\* wrongPassSound otherwise. action() is the call of selectState(signal).
CtrlCheck(e) ==
    /\ Reading
    /\ IsPress(e)
    /\ e.code \notin DOMAIN numKeys
    /\ e.code \in DOMAIN ctrlKeys
    /\ ChecksPasswd(ctrlKeys[e.code])
    /\ keys' = keys + 1
    /\ IF buf = <<>>
       THEN /\ lastOutcome' = Heard(ctrlKeys[e.code], <<"ctrlKey">>, FALSE)
            /\ UNCHANGED <<buf, resetTimer, resetTimers>>
            /\ UNCHANGED smVars
       ELSE /\ resetTimers' = stopResetTimer(resetTimer, resetTimers)
            /\ buf' = <<>>
            /\ UNCHANGED resetTimer
            /\ IF passwdMatches(buf)
               THEN /\ lastOutcome' = Heard(ctrlKeys[e.code], <<>>, FALSE)
                    /\ pc' = [pc EXCEPT ![Keypad] = "wait"]
                    /\ sig' = [sig EXCEPT ![Keypad] = KeySignal(ctrlKeys[e.code])]
                    /\ calls' = calls + 1
                    /\ UNCHANGED <<currentState, stateFile, lock, timerRef,
                                   timers, from, nxt, trace, expect, mainPc,
                                   mainSt>>
               ELSE /\ lastOutcome' = Heard(ctrlKeys[e.code], <<"wrongPass">>, FALSE)
                    /\ UNCHANGED smVars
    /\ UNCHANGED <<passwd, now, obs>>
    /\ UNCHANGED envVars

\* ENTER while the machine is disarmed: ctrlKeySound only
EnterDisarmed(e) ==
    /\ Reading
    /\ IsPress(e)
    /\ e.code \notin DOMAIN numKeys
    /\ e.code \in DOMAIN ctrlKeys
    /\ ctrlKeys[e.code] = "ENTER"
    /\ currentState = "disarmed"
    /\ keys' = keys + 1
    /\ lastOutcome' = Heard("ENTER", <<"ctrlKey">>, FALSE)
    /\ UNCHANGED <<buf, passwd, resetTimer, resetTimers, now, obs>>
    /\ UNCHANGED envVars
    /\ UNCHANGED smVars

DropLastMutFirst(b) == IF b = <<>> THEN <<>> ELSE Tail(b)

\* self._buf[:-1]
DropLast(b) == IF b = <<>> THEN <<>> ELSE SubSeq(b, 1, Len(b) - 1)

\* BS: the last character is dropped; the timer is stopped if the buffer is
\* now empty and started otherwise; backspaceSound is played
Backspace(e) ==
    /\ Reading
    /\ IsPress(e)
    /\ e.code \notin DOMAIN numKeys
    /\ e.code \in DOMAIN ctrlKeys
    /\ ctrlKeys[e.code] = "BS"
    /\ buf' = DropLast(buf)
    /\ IF buf' = <<>>
       THEN /\ resetTimers' = stopResetTimer(resetTimer, resetTimers)
            /\ UNCHANGED resetTimer
       ELSE /\ resetTimers' = startResetTimer(resetTimers)
            /\ resetTimer' = Len(resetTimers')
    /\ keys' = keys + 1
    /\ lastOutcome' = Heard("BS", <<"backspace">>, buf' # <<>>)
    /\ UNCHANGED <<passwd, now, obs>>
    /\ UNCHANGED envVars
    /\ UNCHANGED smVars

\* volume input: the sound engine changes the volume; ctrlKeySound, _setLED
VolKey(e) ==
    /\ Reading
    /\ IsPress(e)
    /\ e.code \notin DOMAIN numKeys
    /\ e.code \notin DOMAIN ctrlKeys
    /\ e.code \in DOMAIN volKeys
    /\ keys' = keys + 1
    /\ lastOutcome' = Heard(volKeys[e.code], <<"ctrlKey">>, FALSE)
    /\ UNCHANGED <<buf, passwd, resetTimer, resetTimers, now, obs>>
    /\ UNCHANGED envVars
    /\ UNCHANGED smVars

\* an event that is no key press, or a key of none of the tables: nothing
Ignored(e) ==
    /\ Reading
    /\ \/ ~IsPress(e)
       \/ /\ e.code \notin DOMAIN numKeys
          /\ e.code \notin DOMAIN ctrlKeys
          /\ e.code \notin DOMAIN volKeys
    /\ UNCHANGED vars

\* a Timer's 30 seconds are over and it was not cancelled: _clearBuffer()
ResetTimerFires(k) ==
    /\ resetTimers[k].st = "pending"
    /\ resetTimers[k].deadline <= now
    /\ resetTimers' = [resetTimers EXCEPT ![k].st = "fired"]
    /\ buf' = <<>>
    /\ UNCHANGED <<passwd, resetTimer, now, keys, lastOutcome, obs>>
    /\ UNCHANGED envVars
    /\ UNCHANGED smVars

\* time passes, once every Timer that is due has fired
Tick ==
    /\ now < MaxTime
    /\ \A k \in DOMAIN resetTimers :
           resetTimers[k].st = "pending" => resetTimers[k].deadline > now
    /\ now' = now + 1
    /\ UNCHANGED <<buf, passwd, resetTimer, resetTimers, keys, lastOutcome, obs>>
    /\ UNCHANGED envVars
    /\ UNCHANGED smVars

\* StateMachine.__init__ with KeypadListener(stateMachine=self, passwd=...):
\* the buffer is empty and no Timer exists
InitKeypad ==
    /\ currentState \in States
    /\ stateFile = currentState
    /\ lock = NoThread
    /\ timerRef = Unset
    /\ timers = [k \in TimerIds |-> NoTimer]
    /\ pc = [c \in Callers |-> "idle"]
    /\ sig = [c \in Callers |-> "TIMOUT"]
    /\ from = [c \in Callers |-> "disarmed"]
    /\ nxt = [c \in Callers |-> "disarmed"]
    /\ trace = [c \in Callers \cup {Main} |-> <<>>]
    /\ calls = 0
    /\ expect = currentState
    /\ mainPc = "constructed"
    /\ mainSt = currentState
    /\ buf = <<>>
    /\ passwd \in Passwds
    /\ resetTimer = 0
    /\ resetTimers = <<>>
    /\ now = 0
    /\ keys = 0
    /\ lastOutcome = NoOutcome
    /\ obs = NoObs
    /\ EnvIdle

NextKeypad ==
    \/ StartManaged
    \/ MainRead
    \/ MainEntry
    \/ \E e \in KeyEvents : NumKey(e)
    \/ \E e \in KeyEvents : CtrlCheck(e)
    \/ \E e \in KeyEvents : EnterDisarmed(e)
    \/ \E e \in KeyEvents : Backspace(e)
    \/ \E e \in KeyEvents : VolKey(e)
    \/ \E e \in KeyEvents : Ignored(e)
    \/ \E k \in DOMAIN resetTimers : ResetTimerFires(k)
    \/ Tick
    \/ \E c \in Callers : Acquire(c)
    \/ \E c \in Callers : Exit(c)
    \/ \E c \in Callers : Assign(c)
    \/ \E c \in Callers : Entry(c)
    \/ \E c \in Callers : Persist(c)
    \/ \E c \in Callers : Release(c)
    \/ \E k \in TimerIds : TimerStep(k)
    \/ \E k \in TimerIds : TimerAction(k)

SpecKeypad == InitKeypad /\ [][NextKeypad]_vars

----------------------------------------------------------------------------
(* Claims about the keypad listener, checked under SpecKeypad *)

\* a step in which a control key ran the password check
PasswdCheckStep ==
    /\ keys' = keys + 1
    /\ lastOutcome'.key \in {"NUML", "/", "*", "ENTER"}
    /\ lastOutcome'.key = "ENTER" => currentState # "disarmed"

\* the listener's timer is cancelled, and that is all that happens to timers
TimerCancelled ==
    /\ resetTimer' = resetTimer
    /\ DOMAIN resetTimers' = DOMAIN resetTimers
    /\ \A k \in DOMAIN resetTimers :
          IF k = resetTimer
          THEN resetTimers'[k].st # "pending"
          ELSE resetTimers'[k] = resetTimers[k]

\* the keypad thread calls selectState(s), once, and nothing else of the
\* machine changes in the step
Injected(s) ==
    /\ pc[Keypad] = "idle"
    /\ pc' = [pc EXCEPT ![Keypad] = "wait"]
    /\ sig' = [sig EXCEPT ![Keypad] = s]
    /\ calls' = calls + 1
    /\ UNCHANGED <<currentState, stateFile, lock, timerRef, timers, from, nxt,
                   trace, expect, mainPc, mainSt>>

\* C9: a control key's password check has three outcomes. Empty buffer:
\* only the neutral sound; buffer, timer and machine untouched. Buffer
\* equal to the decimal string of the password: buffer cleared, the
\* listener's timer cancelled, the key's signal injected once. Any other
\* buffer: buffer cleared, timer cancelled, failure sound, no signal. And
\* the keypad thread enters selectState only in the second outcome.
C9_PasswdCheck ==
    [][ /\ PasswdCheckStep =>
            CASE buf = <<>> ->
                    /\ lastOutcome'.sounds = <<"ctrlKey">>
                    /\ UNCHANGED <<buf, resetTimer, resetTimers>>
                    /\ UNCHANGED smVars
              [] buf = str(passwd) ->
                    /\ buf' = <<>>
                    /\ TimerCancelled
                    /\ Injected(KeySignal(lastOutcome'.key))
                    /\ lastOutcome'.sounds = <<>>
              [] OTHER ->
                    /\ buf' = <<>>
                    /\ TimerCancelled
                    /\ lastOutcome'.sounds = <<"wrongPass">>
                    /\ UNCHANGED smVars
        /\ (pc[Keypad] = "idle" /\ pc'[Keypad] # "idle") =>
              (PasswdCheckStep /\ buf = str(passwd))
      ]_vars

\* the password 10 was typed and "/" pressed: the buffer is empty, the
\* timer of the last digit is cancelled, INSTANT_LOCK is on its way
C9_Witness ==
    /\ lastOutcome.key = "/"
    /\ lastOutcome.sounds = <<>>
    /\ pc[Keypad] = "wait"
    /\ sig[Keypad] = "INSTANT_LOCK"
    /\ buf = <<>>
    /\ resetTimer # 0
    /\ resetTimers[resetTimer].st = "cancelled"
    /\ calls = 1

Pending == {k \in DOMAIN resetTimers : resetTimers[k].st = "pending"}

\* C10: at most one inactivity timer is pending at a time, it is the one
\* started by the most recent numeral (or non-emptying backspace)
\* keystroke, and so it clears the buffer no sooner than the full timeout
\* after that keystroke: a timer of an earlier keystroke never clears
\* digits typed after it.
C10_OneResetTimer ==
    /\ Cardinality(Pending) <= 1
    /\ \A k \in Pending :
          /\ k = resetTimer
          /\ resetTimers[k].deadline = lastOutcome.startedAt + ResetSeconds

\* a step in which the read loop handled a press of ENTER
EnterStep ==
    /\ keys' = keys + 1
    /\ lastOutcome'.key = "ENTER"

\* C11: ENTER pressed while currentState is disarmed runs no password
\* check: whatever the buffer holds, the buffer and the inactivity timers
\* are unchanged, nothing of the machine changes (no signal is injected) and
\* only the neutral sound plays. In every other state ENTER runs the
\* password check with Disarm as its signal.
C11_EnterDisarmed ==
    [][ EnterStep =>
          IF currentState = "disarmed"
          THEN /\ UNCHANGED <<buf, resetTimer, resetTimers>>
               /\ UNCHANGED smVars
               /\ lastOutcome'.sounds = <<"ctrlKey">>
          ELSE CASE buf = <<>> ->
                      /\ lastOutcome'.sounds = <<"ctrlKey">>
                      /\ UNCHANGED <<buf, resetTimer, resetTimers>>
                      /\ UNCHANGED smVars
                 [] buf = str(passwd) ->
                      /\ buf' = <<>>
                      /\ TimerCancelled
                      /\ Injected("DISARM")
                 [] OTHER ->
                      /\ buf' = <<>>
                      /\ TimerCancelled
                      /\ lastOutcome'.sounds = <<"wrongPass">>
                      /\ UNCHANGED smVars
      ]_vars

\* the password was typed and ENTER pressed while disarmed: the neutral
\* sound, the password still in the buffer, its timers still pending
C11_Witness ==
    /\ lastOutcome.key = "ENTER"
    /\ lastOutcome.sounds = <<"ctrlKey">>
    /\ currentState = "disarmed"
    /\ buf = str(passwd)
    /\ resetTimer # 0
    /\ resetTimers[resetTimer].st = "pending"
    /\ pc[Keypad] = "idle"
    /\ calls = 0

\* a step in which the read loop handled a press of backspace
BackspaceStep ==
    /\ keys' = keys + 1
    /\ lastOutcome'.key = "BS"

\* a new Timer with the full timeout is started and becomes the listener's
\* timer; the Timers there were are left as they are
TimerStarted ==
    /\ resetTimer' \in DOMAIN resetTimers' \ DOMAIN resetTimers
    /\ DOMAIN resetTimers' = DOMAIN resetTimers \cup {resetTimer'}
    /\ resetTimers'[resetTimer'].st = "pending"
    /\ resetTimers'[resetTimer'].deadline = now + ResetSeconds
    /\ \A k \in DOMAIN resetTimers : resetTimers'[k] = resetTimers[k]

----------------------------------------------------------------------------
(* SpecLifecycle: the main thread from StateMachine() to the end of the     *)
(* with block: the collaborators constructed and registered one after       *)
(* another, PipeListener.__init__ working on whatever is at the pipe's      *)
(* path, __enter__, __exit__                                                 *)

\* what the main thread's construction steps leave alone
lifeFrame ==
    <<currentState, stateFile, lock, timerRef, timers, pc, sig, from, nxt,
      trace, calls, expect, mainSt, kpVars, obs, inp>>

\* the collaborator __init__ constructs next
Constructing ==
    IF life.idx <= Len(Collaborators) THEN Collaborators[life.idx] ELSE "none"

\* the file type bits of st_mode: S_IFIFO, S_IFREG, S_IFDIR
TypeBits == [fifo |-> 4096, file |-> 32768, dir |-> 16384]

\* os.stat(path).st_mode of a node
st_mode(f) == TypeBits[f.kind] + f.mode

\* stat.S_ISFIFO(m): (m & 0o170000) == 0o010000
S_ISFIFO(m) == (m \div 4096) % 16 = 1

\* a & ~m on the permission bits
RECURSIVE andNot(_, _)
andNot(a, m) ==
    IF a = 0 THEN 0
    ELSE (IF a % 2 = 1 /\ m % 2 = 0 THEN 1 ELSE 0) + 2 * andNot(a \div 2, m \div 2)

\* os.mkfifo(path): a FIFO of mode 0o666 & ~umask
mkfifo(f, umask) == [f EXCEPT !.kind = "fifo", !.mode = andNot(438, umask), !.made = @ + 1]

\* os.chmod(path, mode)
chmod(f, mode) == [f EXCEPT !.mode = mode]

\* os.remove(path) of a node that can be unlinked
remove(f) == [f EXCEPT !.kind = "absent", !.mode = 0]

\* the next collaborator is registered; after the last one __init__ builds
\* the states and reads stateFile['state']
Registers(obj) ==
    /\ life' = [addManaged(life, obj) EXCEPT !.idx = @ + 1]
    /\ mainPc' = IF life.idx = Len(Collaborators) THEN "constructed" ELSE "init"

\* self._addManaged(SoundLib()), FileDump(), Camera(), Blinkenlights(17)
ConstructOther ==
    /\ mainPc = "init"
    /\ Constructing \in {"SoundLib", "FileDump", "Camera", "Blinkenlights"}
    /\ Registers(Constructing)
    /\ UNCHANGED fs
    /\ UNCHANGED lifeFrame

\* PipeListener.__init__: "if not os.path.exists(self._path)"
PipeExists ==
    /\ mainPc = "init"
    /\ Constructing = "PipeListener"
    /\ mainPc' = IF fs.kind = "absent" THEN "pipe.mkfifo" ELSE "pipe.stat"
    /\ UNCHANGED <<fs, life>>
    /\ UNCHANGED lifeFrame

\* os.mkfifo(self._path)
PipeMkfifo ==
    /\ mainPc = "pipe.mkfifo"
    /\ fs' = mkfifo(fs, life.umask)
    /\ mainPc' = "pipe.chmod"
    /\ UNCHANGED life
    /\ UNCHANGED lifeFrame

\* os.chmod(self._path, pipeMode)
PipeChmod ==
    /\ mainPc = "pipe.chmod"
    /\ fs' = chmod(fs, pipeMode)
    /\ mainPc' = "pipe.done"
    /\ UNCHANGED life
    /\ UNCHANGED lifeFrame

\* st_mode = os.stat(self._path).st_mode and the two tests on it
PipeStat ==
    /\ mainPc = "pipe.stat"
    /\ life' = [life EXCEPT !.st_mode = st_mode(fs)]
    /\ mainPc' = IF ~S_ISFIFO(st_mode(fs)) THEN "pipe.remove"
                 ELSE IF st_mode(fs) % 4096 # pipeMode THEN "pipe.chmod"
                 ELSE "pipe.done"
    /\ UNCHANGED fs
    /\ UNCHANGED lifeFrame

\* os.remove(self._path): IsADirectoryError on a directory, which ends
\* PipeListener.__init__ and StateMachine.__init__ with it
PipeRemove ==
    /\ mainPc = "pipe.remove"
    /\ IF fs.kind = "dir"
       THEN /\ mainPc' = "failed"
            /\ UNCHANGED fs
       ELSE /\ mainPc' = "pipe.mkfifo"
            /\ fs' = remove(fs)
    /\ UNCHANGED life
    /\ UNCHANGED lifeFrame

\* the PipeListener is constructed: self._addManaged(PipeListener(...))
PipeRegister ==
    /\ mainPc = "pipe.done"
    /\ Registers("PipeListener")
    /\ UNCHANGED fs
    /\ UNCHANGED lifeFrame

\* KeypadListener.__init__: SystemExit unless passwd is an int
ConstructKeypad ==
    /\ mainPc = "init"
    /\ Constructing = "KeypadListener"
    /\ IF life.passwdIsInt
       THEN Registers("KeypadListener")
       ELSE /\ mainPc' = "failed"
            /\ UNCHANGED life
    /\ UNCHANGED fs
    /\ UNCHANGED lifeFrame

\* PipeListener.stop: os.remove(self._path), FileNotFoundError swallowed
pipeStop(f) == IF f.kind = "absent" THEN f ELSE remove(f)

\* __exit__: self._stopManaged()
StopManaged ==
    /\ mainPc = "running"
    /\ life' = stopManaged(life)
    /\ fs' = IF Has(life.managed, "PipeListener") THEN pipeStop(fs) ELSE fs
    /\ mainPc' = "exited"
    /\ UNCHANGED lifeFrame

\* what can be at the pipe's path before the program starts
Nodes ==
    {[kind |-> "absent", mode |-> 0, made |-> 0, was |-> "absent", wasMode |-> 0]}
        \cup {[kind |-> k, mode |-> m, made |-> 0, was |-> k, wasMode |-> m] :
                k \in {"fifo", "file", "dir"}, m \in {511, 420, 1023, 0}}

\* StateMachine() is called: nothing constructed yet
InitLifecycle ==
    /\ currentState \in States
    /\ stateFile = currentState
    /\ lock = NoThread
    /\ timerRef = Unset
    /\ timers = [k \in TimerIds |-> NoTimer]
    /\ pc = [c \in Callers |-> "idle"]
    /\ sig = [c \in Callers |-> "TIMOUT"]
    /\ from = [c \in Callers |-> "disarmed"]
    /\ nxt = [c \in Callers |-> "disarmed"]
    /\ trace = [c \in Callers \cup {Main} |-> <<>>]
    /\ calls = 0
    /\ expect = currentState
    /\ mainPc = "init"
    /\ mainSt = currentState
    /\ KeypadIdle
    /\ obs = NoObs
    /\ inp = NoInput
    /\ fs \in Nodes
    /\ \E u \in {0, 18, 63} : \E int \in BOOLEAN :
          life = [idx |-> 1, managed |-> <<>>, started |-> <<>>, stopped |-> <<>>,
                  st_mode |-> 0, umask |-> u, passwdIsInt |-> int]

NextLifecycle ==
    \/ ConstructOther
    \/ PipeExists
    \/ PipeMkfifo
    \/ PipeChmod
    \/ PipeStat
    \/ PipeRemove
    \/ PipeRegister
    \/ ConstructKeypad
    \/ StartManaged
    \/ MainRead
    \/ MainEntry
    \/ StopManaged

SpecLifecycle == InitLifecycle /\ [][NextLifecycle]_vars

\* PipeListener.__init__ is over: it returned, or it raised
PipeConstructionOver ==
    \/ mainPc = "pipe.done"
    \/ mainPc = "failed" /\ Constructing = "PipeListener"

\* C13: when PipeListener.__init__ is over the node at the pipe's path is a
\* FIFO with permission bits 0777, whatever was there before: nothing, a
\* FIFO with the right mode, a FIFO with a wrong mode (only the mode is
\* changed, no node is created), or a node that is no FIFO (removed, and a
\* FIFO created in its place).
C13_PipeIsFifo ==
    PipeConstructionOver =>
        /\ fs.kind = "fifo"
        /\ fs.mode = pipeMode
        /\ fs.was = "fifo" => fs.made = 0
        /\ fs.was # "fifo" => fs.made = 1

Elems(s) == {s[i] : i \in 1..Len(s)}

\* C15: once __enter__ has called _startManaged, start() has been called
\* once on every registered collaborator, in registration order; once
\* __exit__ has run, stop() has been called on every registered
\* collaborator; and start() and stop() are only ever called on registered
\* objects, each registered once.
C15_StartStopManaged ==
    /\ mainPc \in {"managed", "entry", "running", "exited"} =>
          life.started = life.managed
    /\ mainPc = "exited" => Elems(life.stopped) = Elems(life.managed)
    /\ mainPc \notin {"managed", "entry", "running", "exited"} =>
          life.started = <<>>
    /\ mainPc # "exited" => life.stopped = <<>>
    /\ Elems(life.started) \subseteq Elems(life.managed)
    /\ Elems(life.stopped) \subseteq Elems(life.managed)
    /\ Cardinality(Elems(life.managed)) = Len(life.managed)
    /\ \E n \in 0..Len(Collaborators) : life.managed = SubSeq(Collaborators, 1, n)

\* the with block was left: the six collaborators were started in the order
\* of their registration and stopped, and the pipe's node is gone
C15_Witness ==
    /\ mainPc = "exited"
    /\ life.managed = Collaborators
    /\ life.started = Collaborators
    /\ Elems(life.stopped) = Elems(Collaborators)
    /\ fs.kind = "absent"

----------------------------------------------------------------------------
(* SpecInputs: the machine driven by the secret pipe and by a motion       *)
(* sensor: PipeListener.listen handing each line to secretCallback, and    *)
(* sensorAction                                                             *)

\* configFile['secretTable']: the secret configured for each signal
secretOf == [s \in SIGNALS |-> <<"k", s>>]

\* secretTable = {secret: getattr(self, signal) for signal, secret in ...}
secretTable ==
    [m \in {secretOf[s] : s \in SIGNALS} |-> CHOOSE s \in SIGNALS : secretOf[s] = m]

\* what a writer can put into the pipe: each secret as a line, an empty
\* line, an unknown line, a secret cut short, a secret without its newline,
\* and nothing at all (the writer closed the pipe)
PipeLines ==
    {Append(secretOf[s], "\n") : s \in SIGNALS}
        \cup {<<"\n">>, <<"x", "\n">>, <<"k", "\n">>, secretOf["DISARM"], <<>>}

\* f.readline()[:-1]
readline(raw) == IF raw = <<>> THEN <<>> ELSE SubSeq(raw, 1, Len(raw) - 1)

dispatchMutDefault(msg) ==
    IF msg \in DOMAIN secretTable THEN secretTable[msg] ELSE "DISARM"

\* secretCallback: the signal of the bound action, "none" for no secret
dispatch(msg) ==
    IF msg \in DOMAIN secretTable THEN secretTable[msg] ELSE "none"

\* listen: a line is read and handed to secretCallback, which calls
\* selectState with the secret's signal, or only logs
PipeLine(raw) ==
    /\ mainPc # "constructed"
    /\ pc[Pipe] = "idle"
    /\ inp.lines < MaxLines
    /\ LET msg == readline(raw)
           s == dispatch(msg)
       IN  /\ inp' = [inp EXCEPT !.msg = msg, !.hit = (s # "none"), !.lines = @ + 1]
           /\ IF s # "none"
              THEN /\ pc' = [pc EXCEPT ![Pipe] = "wait"]
                   /\ sig' = [sig EXCEPT ![Pipe] = s]
                   /\ calls' = calls + 1
              ELSE UNCHANGED <<pc, sig, calls>>
    /\ UNCHANGED <<currentState, stateFile, lock, timerRef, timers, from, nxt,
                   trace, expect, mainPc, mainSt>>
    /\ UNCHANGED <<kpVars, obs, fs, life>>

\* sensorAction: cst = self.currentState, read without the lock; Trip is
\* sent if cst is armed
sensorAction ==
    /\ mainPc # "constructed"
    /\ pc[Sensor] = "idle"
    /\ inp.events < MaxEvents
    /\ inp' = [inp EXCEPT !.cst = currentState, !.events = @ + 1]
    /\ IF currentState = "armed"
       THEN /\ pc' = [pc EXCEPT ![Sensor] = "wait"]
            /\ sig' = [sig EXCEPT ![Sensor] = "TRIP"]
       ELSE UNCHANGED <<pc, sig>>
    /\ UNCHANGED <<currentState, stateFile, lock, timerRef, timers, from, nxt,
                   trace, calls, expect, mainPc, mainSt>>
    /\ UNCHANGED <<kpVars, obs, fs, life>>

NextInputs ==
    \/ StartManaged
    \/ MainRead
    \/ MainEntry
    \/ \E raw \in PipeLines : PipeLine(raw)
    \/ sensorAction
    \/ \E c \in Callers : Acquire(c)
    \/ \E c \in Callers : Exit(c)
    \/ \E c \in Callers : Assign(c)
    \/ \E c \in Callers : Entry(c)
    \/ \E c \in Callers : Persist(c)
    \/ \E c \in Callers : Release(c)
    \/ \E k \in TimerIds : TimerStep(k)
    \/ \E k \in TimerIds : TimerAction(k)

SpecInputs == Init /\ [][NextInputs]_vars

\* a step in which the pipe listener handled a line
LineStep == inp'.lines = inp.lines + 1

\* the signal whose configured secret is the line, if there is one
SecretSignals(msg) == {s \in SIGNALS : msg = <<"k", s>>}

\* C14: for each line read from the pipe: if the line is a configured
\* secret, the pipe thread calls the signal bound to it, once, and nothing
\* else of the machine changes in the step; if it is no configured secret,
\* no action is called, currentState and the persisted state (and the rest
\* of the machine) are unchanged, nothing is raised and the listener is
\* back at reading lines. And the pipe thread enters selectState in no
\* other way.
C14_SecretDispatch ==
    [][ /\ LineStep =>
            IF SecretSignals(inp'.msg) # {}
            THEN /\ pc[Pipe] = "idle"
                 /\ pc' = [pc EXCEPT ![Pipe] = "wait"]
                 /\ \E s \in SecretSignals(inp'.msg) : sig' = [sig EXCEPT ![Pipe] = s]
                 /\ calls' = calls + 1
                 /\ UNCHANGED <<currentState, stateFile, lock, timerRef, timers,
                                from, nxt, trace, expect, mainPc, mainSt>>
            ELSE /\ UNCHANGED smVars
                 /\ pc'[Pipe] = "idle"
        /\ (pc[Pipe] = "idle" /\ pc'[Pipe] # "idle") =>
              (LineStep /\ SecretSignals(inp'.msg) # {})
      ]_vars

\* after a line that is no secret the listener read the secret of Lock and
\* is calling selectState(LOCK)
C14_Witness ==
    /\ inp.lines = 2
    /\ calls = 1
    /\ inp.msg = <<"k", "LOCK">>
    /\ inp.hit
    /\ pc[Pipe] = "wait"
    /\ sig[Pipe] = "LOCK"

\* C20: a call of selectState made by sensorAction changes the machine
\* only from armed to trippedCountdown: it never finds the machine in
\* locked (or any state but armed) and moves it.
C20_SensorOnlyFromArmed ==
    (InCall(Sensor) /\ nxt[Sensor] # from[Sensor]) =>
        /\ from[Sensor] = "armed"
        /\ nxt[Sensor] = "trippedCountdown"

----------------------------------------------------------------------------
(* SpecDoor: the machine driven by its listeners and by the door sensor's  *)
(* callback, doorAction                                                     *)

\* the condition of doorAction's if statement, as Python parses it: "and"
\* binds tighter than "or"
doorTrips(closed, cst) == (~closed /\ cst = "armed") \/ cst = "locked"

\* doorAction(closed, logger): cst = self.currentState, read without the
\* lock; Trip is sent if the condition holds
doorAction(closed) ==
    /\ mainPc # "constructed"
    /\ pc[Sensor] = "idle"
    /\ inp.events < MaxEvents
    /\ inp' = [inp EXCEPT !.cst = currentState, !.closed = closed, !.events = @ + 1]
    /\ IF doorTrips(closed, currentState)
       THEN /\ pc' = [pc EXCEPT ![Sensor] = "wait"]
            /\ sig' = [sig EXCEPT ![Sensor] = "TRIP"]
       ELSE UNCHANGED <<pc, sig>>
    /\ UNCHANGED <<currentState, stateFile, lock, timerRef, timers, from, nxt,
                   trace, calls, expect, mainPc, mainSt>>
    /\ UNCHANGED <<kpVars, obs, fs, life>>

NextDoor ==
    \/ StartManaged
    \/ MainRead
    \/ MainEntry
    \/ \E c \in Listeners : \E s \in SIGNALS : Call(c, s)
    \/ \E closed \in BOOLEAN : doorAction(closed)
    \/ \E c \in Callers : Acquire(c)
    \/ \E c \in Callers : Exit(c)
    \/ \E c \in Callers : Assign(c)
    \/ \E c \in Callers : Entry(c)
    \/ \E c \in Callers : Persist(c)
    \/ \E c \in Callers : Release(c)
    \/ \E k \in TimerIds : TimerStep(k)
    \/ \E k \in TimerIds : TimerAction(k)

SpecDoor == Init /\ [][NextDoor]_vars

\* C21: whenever doorAction has sent Trip (its thread is in or waiting for
\* selectState), the door was opened (closed is false) and the state it
\* observed was armed or locked: a door-closed event sends no Trip, in any
\* state.
C21_DoorTripOnlyWhenOpened ==
    pc[Sensor] # "idle" => (~inp.closed /\ inp.cst \in {"armed", "locked"})

====
